---- MODULE Spec2Model ----
(***************************************************************************)
(* Model of the REST client of @rewritejs/rest (src/src/client.ts and its  *)
(* utils, types and errors modules).                                       *)
(*                                                                         *)
(* One client instance (options, headers) is shared by the logical calls   *)
(* of CallIds.  Every async function of the client is cut at its await     *)
(* points: an action is the code that runs between two awaits.  The        *)
(* functions exported by utils, and the parsers of the client, are applied *)
(* to inputs of their own in SpecUtils.                                    *)
(*                                                                         *)
(* Representation.                                                         *)
(*  - An optional JavaScript value is a sequence: << >> is undefined/null, *)
(*    <<v>> is the value v.                                                *)
(*  - A JavaScript number read from a header, and every duration, is a    *)
(*    fixed-point integer: the number x is the integer x * Scale, so that  *)
(*    fractional header values and Math.ceil are not lost.  Attempt        *)
(*    indices and status codes are plain integers.                         *)
(*  - A header value of a response is a token [k, n, s]: k = "absent",     *)
(*    "empty", "num" (the number n), "inf" (a non-finite number), "date"   *)
(*    (an HTTP date, n milliseconds since the epoch) or "text" (the        *)
(*    string s, which is neither a number nor a date).                     *)
(*  - Record constructors list their fields in the order in which the     *)
(*    field names first occur in the module, the order TLC keeps them in.  *)
(***************************************************************************)
EXTENDS Integers, Sequences, FiniteSets, TLC

VARIABLES
    options,        \* this.options of the client
    headers,        \* this.headers of the client
    calls,          \* the logical calls: the frames of fetch and handleError
    setAuthResult,  \* what the last setAuth returned ("none" before the first)
    setAuthLeft,    \* number of setAuth invocations the application still makes
    lastAuth,       \* the credential given to the constructor or the last setAuth
    evaluation      \* the exported function the application applies directly

vars == <<options, headers, calls, setAuthResult, setAuthLeft, lastAuth, evaluation>>

(***************************************************************************)
(* Bounds of the model.                                                    *)
(***************************************************************************)
\* largest retry.max a client is configured with
MaxRetryMax == 1

\* largest number of setAuth invocations the application makes
MaxSetAuth == 1

(***************************************************************************)
(* Small JavaScript helpers.                                               *)
(***************************************************************************)
Undefined == << >>

Some(v) == <<v>>

\* a ?? b
Nullish(a, b) == IF a = Undefined THEN b ELSE a[1]

\* { ...a, ...b } on records of strings
Spread(a, b) ==
    [key \in (DOMAIN a) \cup (DOMAIN b) |-> IF key \in DOMAIN b THEN b[key] ELSE a[key]]

NoHeaders == [key \in {} |-> ""]

Bearer(authorization) == "Bearer " \o authorization

(***************************************************************************)
(* utils                                                                   *)
(***************************************************************************)
\* four decimal digits
Scale == 10 ^ 4

Ms(n) == n * Scale

DefaultBaseURL == "https://api.userewrite.me"

FIVE_SECONDS_IN_MS == 5000

RATE_LIMIT_STATUS == 429

RETRYABLE_STATUS == {408, 425, 429, 500, 502, 503, 504}

BASE_DELAY_MS == 300

MAX_DELAY_MS == 10000

DefaultRetryMax == 3

RECURSIVE Pow2(_)
Pow2(n) == IF n = 0 THEN 1 ELSE 2 * Pow2(n - 1)

Min(a, b) == IF a < b THEN a ELSE b

Max(a, b) == IF a > b THEN a ELSE b

\* the application/x-www-form-urlencoded form of the names and values the
\* queries are made of: a space becomes +, letters and digits stay
Encode(s) == IF s = "a b" THEN "a+b" ELSE s

\* new URLSearchParams(query).toString() for a query given as its pairs
RECURSIVE EncodeQuery(_)
EncodeQuery(pairs) ==
    IF pairs = << >> THEN ""
    ELSE Encode(pairs[1][1]) \o "=" \o Encode(pairs[1][2])
         \o (IF Len(pairs) > 1 THEN "&" \o EncodeQuery(Tail(pairs)) ELSE "")

\* the truthiness of the query argument: an object or an array is truthy
\* even when empty, a string only when it is not empty
Truthy(query) ==
    /\ query # Undefined
    /\ (query[1].kind = "string" => query[1].pairs # << >>)

createURL(route, query, baseURL) ==
    LET url == Nullish(baseURL, DefaultBaseURL) \o "/v1" \o route
    IN  IF Truthy(query) THEN url \o "?" \o EncodeQuery(query[1].pairs) ELSE url

\* every server error taken as retryable, and 425 forgotten
isRetryableStatusServerErrors(status) == status \in {408, 429} \/ status >= 500

isRetryableStatus(status) == status \in RETRYABLE_STATUS

\* Math.random() takes one of these values, in thousandths
RandomDraws == {0, 500, 999}

\* backoff without the cap of MAX_DELAY_MS
backoffMsUncapped(attempt, random) ==
    LET exp == BASE_DELAY_MS * Pow2(attempt)
    IN  exp + ((random * exp * 3) \div 10000)

\* backoff(attempt) for the draw random/1000, in milliseconds
backoffMs(attempt, random) ==
    LET exp == Min(MAX_DELAY_MS, BASE_DELAY_MS * Pow2(attempt))
    IN  exp + ((random * exp * 3) \div 10000)

backoff(attempt, random) == Ms(backoffMs(attempt, random))

(***************************************************************************)
(* errors                                                                  *)
(***************************************************************************)
HTTPError(message, status, url, method) ==
    [url |-> url, status |-> status, message |-> message,
     method |-> method, name |-> "HTTPError"]

RateLimitError(message, url, method, context) ==
    [url |-> url, status |-> RATE_LIMIT_STATUS, message |-> message,
     method |-> method, name |-> "RateLimitError", limit |-> context.limit,
     global |-> context.isGlobal, retryAfter |-> context.retryAfter]

RewriteError(message, code, detailed) ==
    [message |-> message, name |-> "RewriteError", code |-> code,
     detailed |-> detailed]

\* failures that are raised by the runtime, not built by the client
RuntimeError(name) == [name |-> name]

(***************************************************************************)
(* Responses of the transport.                                             *)
(***************************************************************************)
Absent == [n |-> 0, s |-> "", k |-> "absent"]

Empty == [n |-> 0, s |-> "", k |-> "empty"]

Num(n) == [n |-> n, s |-> "", k |-> "num"]

Inf == [n |-> 0, s |-> "", k |-> "inf"]

Date(n) == [n |-> n, s |-> "", k |-> "date"]

Text(s) == [n |-> 0, s |-> s, k |-> "text"]

\* headers.get(key)
Get(hdrs, key) == IF key \in DOMAIN hdrs THEN hdrs[key] ELSE Absent

\* !value for the string or null that headers.get returns
Falsy(token) == token.k \in {"absent", "empty"}

Finite(n) == [n |-> n, k |-> "fin"]

NaN == [n |-> 0, k |-> "nan"]

Infinity == [n |-> 0, k |-> "inf"]

\* Number(value)
Number(token) ==
    CASE token.k \in {"absent", "empty"} -> Finite(0)
      [] token.k = "num" -> Finite(token.n)
      [] token.k = "inf" -> Infinity
      [] OTHER -> NaN

\* Date.parse(value)
DateParse(token) == IF token.k = "date" THEN Finite(Ms(token.n)) ELSE NaN

\* Math.ceil
Ceil(x) == IF x % Scale = 0 THEN x ELSE ((x \div Scale) + 1) * Scale

\* value.toLowerCase() on the strings a boolean-like header takes
ToLowerCase(s) == IF s \in {"true", "TRUE", "True"} THEN "true"
                  ELSE IF s \in {"false", "FALSE", "False"} THEN "false" ELSE s

parseNumberHeader(hdrs, key) ==
    LET value == Get(hdrs, key)
        parsed == Number(value)
    IN  IF Falsy(value) THEN 0
        ELSE IF parsed.k = "fin" THEN parsed.n ELSE 0

parseBooleanHeader(hdrs, key) ==
    LET value == Get(hdrs, key)
    IN  value.k = "text" /\ ToLowerCase(value.s) = "true"

\* Retry-After parsed without the floor at 0
parseRetryAfterHeaderUnclamped(header, now) ==
    LET seconds == Number(header)
        date == DateParse(header)
    IN  IF Falsy(header) THEN 0
        ELSE IF seconds.k = "fin" THEN Ceil(seconds.n * 1000)
        ELSE IF date.k = "nan" THEN 0 ELSE date.n - now

parseRetryAfterHeader(header, now) ==
    LET seconds == Number(header)
        date == DateParse(header)
    IN  IF Falsy(header) THEN 0
        ELSE IF seconds.k = "fin" THEN Max(0, Ceil(seconds.n * 1000))
        ELSE IF date.k = "nan" THEN 0 ELSE Max(0, date.n - now)

parseRateLimitContext(response, now) ==
    LET xRateLimitRetryAfter == parseNumberHeader(response.headers, "X-RateLimit-Retry-After")
        retryAfter == IF xRateLimitRetryAfter > 0 THEN xRateLimitRetryAfter
                      ELSE parseRetryAfterHeader(Get(response.headers, "Retry-After"), now)
    IN  [limit |-> Number(Get(response.headers, "X-RateLimit-Limit")),
         isGlobal |-> parseBooleanHeader(response.headers, "X-RateLimit-Global"),
         retryAfter |-> retryAfter]

\* a JSON object with the properties the client reads
Object(data, message, code, error) ==
    [kind |-> "object", message |-> message, code |-> code, data |-> data, error |-> error]

\* JSON null
NullBody == [kind |-> "null", message |-> Undefined, code |-> Undefined,
             data |-> Undefined, error |-> Undefined]

\* a body that is not JSON (empty, HTML, ...)
TextBody == [kind |-> "text", message |-> Undefined, code |-> Undefined,
             data |-> Undefined, error |-> Undefined]

Response(status, url, hdrs, body) ==
    [headers |-> hdrs, url |-> url, status |-> status,
     body |-> body, ok |-> status \in 200..299]

OkBodies ==
    { Object(Some("msg_1"), Undefined, Undefined, Undefined),
      Object(Undefined, Undefined, Undefined, Undefined),
      NullBody, TextBody }

\* bodies that carry the error payload {message, code, error: {detailed}}
BusinessBodies ==
    { Object(Undefined, Some("Invalid payload"), Some("INVALID_PAYLOAD"),
             Some([detailed |-> Some("field:to")])),
      Object(Undefined, Some("Not found"), Some("NOT_FOUND"),
             Some([detailed |-> Some("id")])) }

\* other bodies of a failed response: JSON without an error object, JSON
\* null, not JSON
OtherBodies ==
    { Object(Undefined, Some("Not Found"), Undefined, Undefined), NullBody, TextBody }

RateLimitHeaders ==
    { [key \in {"X-RateLimit-Limit", "X-RateLimit-Global", "X-RateLimit-Retry-After"} |->
          CASE key = "X-RateLimit-Limit" -> Num(Ms(100))
            [] key = "X-RateLimit-Global" -> Text("false")
            [] OTHER -> Num(Ms(1500))],
      [key \in {"X-RateLimit-Limit", "X-RateLimit-Global", "X-RateLimit-Retry-After"} |->
          CASE key = "X-RateLimit-Limit" -> Num(Ms(25))
            [] key = "X-RateLimit-Global" -> Text("TRUE")
            [] OTHER -> Num(0)],
      [key \in {"Retry-After"} |-> Date(5000)] }

NoResponseHeaders == [key \in {} |-> Absent]

\* the URL a failed response reports: the requested one, or none (a stub)
ResponseURLs(request) == {request.url, ""}

\* the responses the transport may give to a request
Responses(request) ==
    { Response(200, request.url, NoResponseHeaders, body) : body \in OkBodies }
    \cup { Response(400, request.url, NoResponseHeaders, body) : body \in BusinessBodies }
    \cup { Response(404, request.url, NoResponseHeaders, body) : body \in OtherBodies }
    \cup UNION { { Response(status, url, NoResponseHeaders, TextBody) : status \in {500, 503} }
                \cup { Response(RATE_LIMIT_STATUS, url, hdrs, TextBody) :
                          hdrs \in RateLimitHeaders }
              : url \in ResponseURLs(request) }

\* the failures of the transport: the timeout signal fired, or the network failed
TransportFailures == {"TimeoutError", "TypeError"}

\* the readings of Date.now(), in milliseconds
Clock == {4000, 6000}

(***************************************************************************)
(* The client: construction                                                *)
(***************************************************************************)
CallIds == {"c1", "c2"}

\* retry.delay functions a client is configured with
DelayFunctions == {"half"}

\* retry.delay(attempt): "half" is attempt * 0.5
ApplyDelay(delay, attempt) == IF delay = "half" THEN (attempt * Scale) \div 2 ELSE 0

RetryOptions ==
    [delay : {Undefined} \cup {Some(f) : f \in DelayFunctions},
     max : {Undefined} \cup {Some(n) : n \in 0..MaxRetryMax},
     onRetry : BOOLEAN]

\* the clients whose retry policy and rate-limit callback vary
RetryClients ==
    [headers : {NoHeaders}, baseURL : {Undefined}, auth : {"old-token"},
     timeout : {Undefined}, retry : RetryOptions, onRateLimit : BOOLEAN]

\* the default headers a client is configured with: they name the two headers
\* the constructor sets, and one of their own
DefaultHeaders ==
    [key \in {"Content-Type", "Authorization", "X-App"} |->
        CASE key = "Content-Type" -> "text/plain"
          [] key = "Authorization" -> "Basic default"
          [] OTHER -> "demo"]

\* the constructor with the default headers spread last
ConstructHeadersLast(opts) ==
    Spread(Spread([key \in {"Content-Type"} |-> "application/json"],
                  [key \in {"Authorization"} |-> Bearer(opts.auth)]),
           opts.headers)

\* constructor(options)
Construct(opts) ==
    Spread(Spread([key \in {"Content-Type"} |-> "application/json"], opts.headers),
           [key \in {"Authorization"} |-> Bearer(opts.auth)])

IdleCall ==
    [options |-> Undefined, route |-> "", attempt |-> 0, response |-> Undefined,
     delay |-> Undefined, pc |-> "idle", rateLimitContext |-> Undefined,
     requests |-> << >>, onRetryLog |-> << >>,
     onRateLimitCalls |-> 0, onRateLimitArg |-> Undefined,
     retryable |-> 0, rateLimited |-> 0, sleeps |-> 0, thrown |-> Undefined,
     result |-> Undefined, authChanged |-> FALSE]

\* a call of the application that is never made
UnusedCall == [IdleCall EXCEPT !.pc = "unused"]

\* the clients on which the application changes the credential
AuthClients ==
    [headers : {NoHeaders}, baseURL : {Undefined}, auth : {"old-token"},
     timeout : {Undefined},
     retry : [delay : {Some("half")}, max : {Some(MaxRetryMax)}, onRetry : {TRUE}],
     onRateLimit : {TRUE}]

\* the application applies no exported function directly
NoEvaluation == [result |-> Undefined, fn |-> "none", args |-> << >>]

\* the clients configured with default headers
HeaderClients ==
    [headers : {DefaultHeaders}, baseURL : {Undefined}, auth : {"old-token"},
     timeout : {Undefined},
     retry : [delay : {Some("half")}, max : {Some(MaxRetryMax)}, onRetry : {FALSE}],
     onRateLimit : {FALSE}]

InitOf(clients, idle, setAuths) ==
    /\ options \in clients
    /\ headers = Construct(options)
    /\ calls = [id \in CallIds |-> IF id \in idle THEN IdleCall ELSE UnusedCall]
    /\ setAuthResult = "none"
    /\ setAuthLeft = setAuths
    /\ lastAuth = options.auth
    /\ evaluation = NoEvaluation

\* The application is one of: a client of any retry policy that makes one
\* call; a client that makes one call and changes its credential; a client
\* with default headers that makes one call and changes its credential.
Init ==
    \/ InitOf(RetryClients, {"c1"}, 0)
    \/ InitOf(AuthClients, {"c1"}, MaxSetAuth)
    \/ InitOf(HeaderClients, {"c1"}, MaxSetAuth)

(***************************************************************************)
(* The client: setAuth                                                     *)
(***************************************************************************)
Credentials == {"old-token", "new-token"}

\* setAuth that leaves the headers of the client alone
setAuthOptionsOnly(authorization) ==
    /\ options' = [options EXCEPT !.auth = authorization]
    /\ headers' = headers
    /\ setAuthResult' = "this"

setAuth(authorization) ==
    /\ options' = [options EXCEPT !.auth = authorization]
    /\ headers' = Spread(headers, [key \in {"Authorization"} |-> Bearer(authorization)])
    /\ setAuthResult' = "this"

SetAuth(authorization) ==
    /\ setAuthLeft > 0
    /\ setAuth(authorization)
    /\ setAuthLeft' = setAuthLeft - 1
    /\ lastAuth' = authorization
    /\ calls' = [id \in CallIds |->
                    IF calls[id].pc \notin {"unused", "idle"}
                    THEN [calls[id] EXCEPT !.authChanged = TRUE] ELSE calls[id]]
    /\ UNCHANGED evaluation

(***************************************************************************)
(* The client: one physical request                                        *)
(***************************************************************************)
\* JSON.stringify(data)
Stringify(data) == IF data = Undefined THEN Undefined ELSE Some("\"" \o data[1] \o "\"")

prefetch(route, opts) ==
    [headers |-> Spread(headers, opts.headers),
     url |-> createURL(route, opts.query, options.baseURL),
     method |-> opts.method,
     body |-> IF opts.hasData THEN Stringify(opts.data) ELSE Undefined,
     timeout |-> Nullish(opts.timeout, Nullish(options.timeout, FIVE_SECONDS_IN_MS))]

\* fetch that sends on a retry the headers of the first request of the call
fetchCaptured(call, route, opts, attempt) ==
    LET request == prefetch(route, opts)
    IN  [call EXCEPT !.pc = "fetching", !.route = route, !.options = Some(opts),
                     !.attempt = attempt,
                     !.response = Undefined, !.rateLimitContext = Undefined,
                     !.delay = Undefined,
                     !.requests = Append(@, IF call.requests = << >> THEN request
                                            ELSE [request EXCEPT
                                                    !.headers = call.requests[1].headers])]

\* fetch that re-issues a retry without the body of the call
fetchRetryWithoutBody(call, route, opts, attempt) ==
    LET request == prefetch(route, opts)
    IN  [call EXCEPT !.pc = "fetching", !.route = route, !.options = Some(opts),
                     !.attempt = attempt,
                     !.response = Undefined, !.rateLimitContext = Undefined,
                     !.delay = Undefined,
                     !.requests = Append(@, IF attempt = 0 THEN request
                                            ELSE [request EXCEPT !.body = Undefined])]

\* fetch with the attempt index kept in a counter of the client, which every
\* call in flight advances
fetchSharedAttempt(call, route, opts, attempt) ==
    LET shared == [id \in CallIds |-> IF calls[id].pc \in {"unused", "idle"} THEN 0
                                       ELSE calls[id].attempt]
    IN  [call EXCEPT !.pc = "fetching", !.route = route, !.options = Some(opts),
                     !.attempt = Max(attempt, Max(shared["c1"], shared["c2"])),
                     !.response = Undefined, !.rateLimitContext = Undefined,
                     !.delay = Undefined,
                     !.requests = Append(@, prefetch(route, opts))]

\* fetch(route, options, attempt) up to its first await
fetch(call, route, opts, attempt) ==
    [call EXCEPT !.pc = "fetching", !.route = route, !.options = Some(opts),
                 !.attempt = attempt,
                 !.response = Undefined, !.rateLimitContext = Undefined,
                 !.delay = Undefined,
                 !.requests = Append(@, prefetch(route, opts))]

(***************************************************************************)
(* The client: the public methods                                          *)
(***************************************************************************)
NoQuery == Undefined

\* the arguments the application gives to the public methods: a route, a
\* body (for post and patch) and the options
Arguments ==
    { [options |-> [headers |-> NoHeaders, query |-> NoQuery, timeout |-> Undefined], route |-> "/messages",
       data |-> Some("oi")],
      [options |-> [headers |-> [key \in {"Authorization"} |-> "Bearer per-call"],
                    query |-> Some([pairs |-> << <<"page", "1">> >>, kind |-> "record"]),
                    timeout |-> Some(1000)], route |-> "/health",
       data |-> Undefined] }

FetchOptions(ropts, method, hasData, data) ==
    [headers |-> ropts.headers, query |-> ropts.query, method |-> method,
     data |-> data, timeout |-> ropts.timeout, hasData |-> hasData]

Start(id, route, opts) ==
    /\ calls[id].pc = "idle"
    /\ calls' = [calls EXCEPT ![id] = fetch(calls[id], route, opts, 0)]
    /\ UNCHANGED <<options, headers, setAuthResult, setAuthLeft, lastAuth, evaluation>>

get(id, route, ropts) == Start(id, route, FetchOptions(ropts, "GET", FALSE, Undefined))

post(id, route, data, ropts) == Start(id, route, FetchOptions(ropts, "POST", TRUE, data))

delete(id, route, ropts) == Start(id, route, FetchOptions(ropts, "DELETE", FALSE, Undefined))

put(id, route, ropts) == Start(id, route, FetchOptions(ropts, "PUT", FALSE, Undefined))

patch(id, route, data, ropts) == Start(id, route, FetchOptions(ropts, "PATCH", TRUE, data))

(***************************************************************************)
(* The client: handling a response                                         *)
(***************************************************************************)
Resolve(call, value) == [call EXCEPT !.pc = "resolved", !.result = Some([value |-> value])]

Reject(call, error) == [call EXCEPT !.pc = "rejected", !.result = Some([error |-> error])]

\* the exhaustion error without the rate-limit variant
buildRetryExceededErrorPlain(response, method, rateLimitContext) ==
    HTTPError("Max retries reached", response.status, response.url, method)

buildRetryExceededError(response, method, rateLimitContext) ==
    IF rateLimitContext # Undefined
    THEN RateLimitError("Rate limit has not been reset yet", response.url, method,
                        rateLimitContext[1])
    ELSE HTTPError("Max retries reached", response.status, response.url, method)

\* the configured delay function taking priority over retryAfter
resolveRetryDelayCustomFirst(attempt, retry, rateLimitContext, random) ==
    LET retryAfterDelay ==
            IF rateLimitContext = Undefined THEN 0 ELSE rateLimitContext[1].retryAfter
    IN  IF retry.delay # Undefined THEN ApplyDelay(retry.delay[1], attempt)
        ELSE IF retryAfterDelay > 0 THEN retryAfterDelay
        ELSE backoff(attempt, random)

resolveRetryDelay(attempt, retry, rateLimitContext, random) ==
    LET retryAfterDelay ==
            IF rateLimitContext = Undefined THEN 0 ELSE rateLimitContext[1].retryAfter
    IN  IF retryAfterDelay > 0 THEN retryAfterDelay
        ELSE IF retry.delay # Undefined THEN ApplyDelay(retry.delay[1], attempt)
        ELSE backoff(attempt, random)

\* the exhaustion test with > for >=
RetryExceededLate(attempt, retry) == attempt > Nullish(retry.max, DefaultRetryMax)

\* the retries are exhausted
RetryExceeded(attempt, retry) == attempt >= Nullish(retry.max, DefaultRetryMax)

\* handleError from the computation of the delay to the await of sleep
ComputeDelay(call, random) ==
    [call EXCEPT !.pc = "sleep",
                 !.delay = Some(resolveRetryDelay(call.attempt, options.retry,
                                                  call.rateLimitContext, random))]

\* onRetry invoked and not awaited: handleError goes on to the delay
CallOnRetryNotAwaited(call, random) ==
    IF options.retry.onRetry
    THEN ComputeDelay([call EXCEPT !.onRetryLog =
                           Append(@, [route |-> call.route, attempt |-> call.attempt,
                                      method |-> call.options[1].method])], random)
    ELSE ComputeDelay(call, random)

\* onRetry given the index of the next attempt
CallOnRetryNextAttempt(call, random) ==
    IF options.retry.onRetry
    THEN [call EXCEPT !.pc = "onRetry",
                      !.onRetryLog = Append(@, [route |-> call.route,
                                                attempt |-> call.attempt + 1,
                                                method |-> call.options[1].method])]
    ELSE ComputeDelay(call, random)

\* handleError from the test of retry.onRetry to its next await
CallOnRetry(call, random) ==
    IF options.retry.onRetry
    THEN [call EXCEPT !.pc = "onRetry",
                      !.onRetryLog = Append(@, [route |-> call.route,
                                                attempt |-> call.attempt,
                                                method |-> call.options[1].method])]
    ELSE ComputeDelay(call, random)

\* onRateLimit invoked for every retried response
CallOnRateLimitAlways(call, random) ==
    IF options.onRateLimit
    THEN [call EXCEPT !.pc = "onRateLimit",
                      !.onRateLimitCalls = @ + 1,
                      !.onRateLimitArg = call.rateLimitContext]
    ELSE CallOnRetry(call, random)

\* handleError from the test of onRateLimit to its next await
CallOnRateLimit(call, random) ==
    IF call.rateLimitContext # Undefined /\ options.onRateLimit
    THEN [call EXCEPT !.pc = "onRateLimit",
                      !.onRateLimitCalls = @ + 1,
                      !.onRateLimitArg = call.rateLimitContext]
    ELSE CallOnRetry(call, random)

\* handleError up to its first await
handleError(call, response, now, random) ==
    LET method == call.options[1].method
        retry == options.retry
        rateLimitContext ==
            IF response.status = RATE_LIMIT_STATUS
            THEN Some(parseRateLimitContext(response, Ms(now))) ELSE Undefined
        entered == [call EXCEPT !.rateLimitContext = rateLimitContext]
    IN  IF ~isRetryableStatus(response.status) THEN [call EXCEPT !.pc = "errorJson"]
        ELSE IF RetryExceeded(call.attempt, retry)
        THEN Reject(entered, buildRetryExceededError(response, method, rateLimitContext))
        ELSE CallOnRateLimit(entered, random)

\* fetch after the await of prefetch
fetchResume(call, response, now, random) ==
    LET received ==
            [call EXCEPT !.response = Some(response),
                         !.retryable = @ + (IF isRetryableStatus(response.status) THEN 1 ELSE 0),
                         !.rateLimited = @ + (IF response.status = RATE_LIMIT_STATUS THEN 1 ELSE 0)]
    IN  IF ~response.ok THEN handleError(received, response, now, random)
        ELSE [received EXCEPT !.pc = "json"]

Unchanged == UNCHANGED <<options, headers, setAuthResult, setAuthLeft, lastAuth, evaluation>>

\* the responses the transport may give to the outstanding request of a call
Pending(id) ==
    IF calls[id].pc = "fetching"
    THEN Responses(calls[id].requests[Len(calls[id].requests)]) ELSE {}

Respond(id, response, now, random) ==
    /\ calls[id].pc = "fetching"
    /\ response \in Pending(id)
    /\ calls' = [calls EXCEPT ![id] = fetchResume(calls[id], response, now, random)]
    /\ Unchanged

\* the transport answers a 2xx response
RespondOk(id, response) ==
    /\ response.ok
    /\ Respond(id, response, 0, 0)

\* the transport answers a status that is not retried
RespondNonRetryable(id, response) ==
    /\ ~response.ok /\ ~isRetryableStatus(response.status)
    /\ Respond(id, response, 0, 0)

\* the transport answers a retryable status when the retries are exhausted
RespondRetryExceeded(id, response, now) ==
    /\ ~response.ok /\ isRetryableStatus(response.status)
    /\ RetryExceeded(calls[id].attempt, options.retry)
    /\ Respond(id, response, now, 0)

\* the transport answers a retryable status and a retry follows
RespondRetry(id, response, now, random) ==
    /\ ~response.ok /\ isRetryableStatus(response.status)
    /\ ~RetryExceeded(calls[id].attempt, options.retry)
    /\ Respond(id, response, now, random)

\* a failure of the transport handled as a retryable response is: the delay
\* is waited and the request issued again, until the retries are exhausted
TransportRejectRetried(id, failure) ==
    /\ calls[id].pc = "fetching"
    /\ calls' = [calls EXCEPT ![id] =
                    IF RetryExceeded(calls[id].attempt, options.retry)
                    THEN Reject(calls[id], HTTPError("Max retries reached", 408, "",
                                                     calls[id].options[1].method))
                    ELSE ComputeDelay(calls[id], 0)]
    /\ Unchanged

\* the request times out or the transport fails: the await of prefetch throws
TransportReject(id, failure) ==
    /\ calls[id].pc = "fetching"
    /\ calls' = [calls EXCEPT ![id] = Reject(calls[id], RuntimeError(failure))]
    /\ Unchanged

\* fetch after the await of response.json()
fetchJson(call) ==
    LET body == call.response[1].body
    IN  CASE body.kind = "text" -> Reject(call, RuntimeError("SyntaxError"))
          [] body.kind = "null" -> Reject(call, RuntimeError("TypeError"))
          [] OTHER -> Resolve(call, body.data)

FetchJson(id) ==
    /\ calls[id].pc = "json"
    /\ calls' = [calls EXCEPT ![id] = fetchJson(calls[id])]
    /\ Unchanged

\* the business error built with the message and the code exchanged
handleErrorJsonSwapped(call) ==
    LET body == call.response[1].body
    IN  CASE body.kind = "text" -> Reject(call, RuntimeError("SyntaxError"))
          [] body.kind = "null" -> Reject(call, RuntimeError("TypeError"))
          [] body.error = Undefined -> Reject(call, RuntimeError("TypeError"))
          [] OTHER -> Reject(call, RewriteError(body.code, body.message,
                                                body.error[1].detailed))

\* handleError after the await of response.json()
handleErrorJson(call) ==
    LET body == call.response[1].body
    IN  CASE body.kind = "text" -> Reject(call, RuntimeError("SyntaxError"))
          [] body.kind = "null" -> Reject(call, RuntimeError("TypeError"))
          [] body.error = Undefined -> Reject(call, RuntimeError("TypeError"))
          [] OTHER -> Reject(call, RewriteError(body.message, body.code,
                                                body.error[1].detailed))

HandleErrorJson(id) ==
    /\ calls[id].pc = "errorJson"
    /\ calls' = [calls EXCEPT ![id] = handleErrorJson(calls[id])]
    /\ Unchanged

\* an error thrown, or a promise rejected, by a callback of the application
CallbackError(callback) == [name |-> "Error", thrownBy |-> callback]

\* onRateLimit returns (its promise resolves)
OnRateLimitReturn(id, random) ==
    /\ calls[id].pc = "onRateLimit"
    /\ calls' = [calls EXCEPT ![id] = CallOnRetry(calls[id], random)]
    /\ Unchanged

\* the failure of a callback swallowed: handleError goes on to the delay
awaitSwallowed(call, callback) == ComputeDelay(call, 0)

\* the await of a callback that throws: the failure leaves handleError
awaitThrown(call, callback) == Reject(call, CallbackError(callback))

\* onRateLimit throws (its promise rejects)
OnRateLimitThrow(id) ==
    /\ calls[id].pc = "onRateLimit"
    /\ calls' = [calls EXCEPT ![id] =
                    awaitThrown([calls[id] EXCEPT !.thrown = Some("onRateLimit")],
                                "onRateLimit")]
    /\ Unchanged

\* onRetry returns (its promise resolves)
OnRetryReturn(id, random) ==
    /\ calls[id].pc = "onRetry"
    /\ calls' = [calls EXCEPT ![id] = ComputeDelay(calls[id], random)]
    /\ Unchanged

\* onRetry throws (its promise rejects)
OnRetryThrow(id) ==
    /\ calls[id].pc = "onRetry"
    /\ calls' = [calls EXCEPT ![id] =
                    awaitThrown([calls[id] EXCEPT !.thrown = Some("onRetry")], "onRetry")]
    /\ Unchanged

\* sleep whose promise is never resolved: the delay never ends
SleepNeverResolved(id) ==
    /\ calls[id].pc = "sleep"
    /\ UNCHANGED vars

\* the delay elapses: fetch(route, options, attempt + 1)
Sleep(id) ==
    /\ calls[id].pc = "sleep"
    /\ calls' = [calls EXCEPT ![id] =
                    fetch([calls[id] EXCEPT !.sleeps = @ + 1], calls[id].route,
                          calls[id].options[1], calls[id].attempt + 1)]
    /\ Unchanged

(***************************************************************************)
(* Specification                                                           *)
(***************************************************************************)
Next ==
    \/ \E c \in Credentials : SetAuth(c)
    \/ \E id \in CallIds, args \in Arguments : get(id, args.route, args.options)
    \/ \E id \in CallIds, args \in Arguments : post(id, args.route, args.data, args.options)
    \/ \E id \in CallIds, args \in Arguments : delete(id, args.route, args.options)
    \/ \E id \in CallIds, args \in Arguments : put(id, args.route, args.options)
    \/ \E id \in CallIds, args \in Arguments : patch(id, args.route, args.data, args.options)
    \/ \E id \in CallIds : \E response \in Pending(id) :
          \/ RespondOk(id, response)
          \/ RespondNonRetryable(id, response)
          \/ \E now \in Clock : RespondRetryExceeded(id, response, now)
          \/ \E now \in Clock, random \in RandomDraws : RespondRetry(id, response, now, random)
    \/ \E id \in CallIds, failure \in TransportFailures : TransportReject(id, failure)
    \/ \E id \in CallIds : FetchJson(id)
    \/ \E id \in CallIds : HandleErrorJson(id)
    \/ \E id \in CallIds, random \in RandomDraws : OnRateLimitReturn(id, random)
    \/ \E id \in CallIds : OnRateLimitThrow(id)
    \/ \E id \in CallIds, random \in RandomDraws : OnRetryReturn(id, random)
    \/ \E id \in CallIds : OnRetryThrow(id)
    \/ \E id \in CallIds : Sleep(id)

Spec == Init /\ [][Next]_vars

(***************************************************************************)
(* Specification with the progress the runtime and the environment give    *)
(***************************************************************************)
\* the outstanding request of the call completes with a response, times out
\* (AbortSignal.timeout) or is rejected by the transport
Completes(id) ==
    \/ \E response \in Pending(id) :
          \/ RespondOk(id, response)
          \/ RespondNonRetryable(id, response)
          \/ \E now \in Clock : RespondRetryExceeded(id, response, now)
          \/ \E now \in Clock, random \in RandomDraws : RespondRetry(id, response, now, random)
    \/ \E failure \in TransportFailures : TransportReject(id, failure)

\* response.json() settles
BodyRead(id) == FetchJson(id) \/ HandleErrorJson(id)

\* the callback the call awaits returns or throws
CallbackSettles(id) ==
    \/ \E random \in RandomDraws : OnRateLimitReturn(id, random)
    \/ OnRateLimitThrow(id)
    \/ \E random \in RandomDraws : OnRetryReturn(id, random)
    \/ OnRetryThrow(id)

\* Every request completes or times out, every body read settles, every
\* callback returns or throws, every delay elapses.  Nothing obliges the
\* application to start a call.
Fairness ==
    \A id \in CallIds :
        /\ WF_vars(Completes(id))
        /\ WF_vars(BodyRead(id))
        /\ WF_vars(CallbackSettles(id))
        /\ WF_vars(Sleep(id))

\* the clients with the default retry.max or a configured one, with both
\* callbacks or with none
FairClients ==
    UNION {[headers : {NoHeaders}, baseURL : {Undefined}, auth : {"old-token"},
            timeout : {Undefined},
            retry : [delay : {Undefined, Some("half")},
                     max : {Undefined, Some(MaxRetryMax)}, onRetry : {callbacks}],
            onRateLimit : {callbacks}] : callbacks \in BOOLEAN}

InitFair == InitOf(FairClients, {"c1"}, 0)

\* the application makes a call with get; then the runtime and the
\* environment move it
NextFair ==
    \/ \E id \in CallIds, args \in Arguments : get(id, args.route, args.options)
    \/ \E id \in CallIds : Completes(id)
    \/ \E id \in CallIds : BodyRead(id)
    \/ \E id \in CallIds : CallbackSettles(id)
    \/ \E id \in CallIds : Sleep(id)

SpecFair == InitFair /\ [][NextFair]_vars /\ Fairness

(***************************************************************************)
(* Specification of two calls in flight on one client                      *)
(***************************************************************************)
\* the clients that serve two calls at once
ConcurrentClients ==
    [headers : {NoHeaders}, baseURL : {Undefined}, auth : {"old-token"},
     timeout : {Undefined},
     retry : [delay : {Undefined}, max : {Some(MaxRetryMax)}, onRetry : {TRUE}],
     onRateLimit : {TRUE}]

InitConcurrent == InitOf(ConcurrentClients, CallIds, 0)

\* the responses the transport gives to a call while two calls are in flight
ConcurrentResponses(id) ==
    { response \in Pending(id) :
        /\ response.url # ""
        /\ response.status \in {200, 400, 429, 500}
        /\ response.body \in {Object(Some("msg_1"), Undefined, Undefined, Undefined),
                               Object(Undefined, Some("Not found"), Some("NOT_FOUND"),
                                      Some([detailed |-> Some("id")])),
                               TextBody} }

NextConcurrent ==
    \/ \E id \in CallIds, args \in Arguments : get(id, args.route, args.options)
    \/ \E id \in CallIds : \E response \in ConcurrentResponses(id) :
          \/ RespondOk(id, response)
          \/ RespondNonRetryable(id, response)
          \/ \E now \in Clock : RespondRetryExceeded(id, response, now)
          \/ \E now \in Clock, random \in RandomDraws : RespondRetry(id, response, now, random)
    \/ \E id \in CallIds : TransportReject(id, "TimeoutError")
    \/ \E id \in CallIds : FetchJson(id)
    \/ \E id \in CallIds : HandleErrorJson(id)
    \/ \E id \in CallIds, random \in RandomDraws : OnRateLimitReturn(id, random)
    \/ \E id \in CallIds : OnRateLimitThrow(id)
    \/ \E id \in CallIds, random \in RandomDraws : OnRetryReturn(id, random)
    \/ \E id \in CallIds : OnRetryThrow(id)
    \/ \E id \in CallIds : Sleep(id)

SpecConcurrent == InitConcurrent /\ [][NextConcurrent]_vars

(***************************************************************************)
(* Specification of the exported functions applied to inputs of their own  *)
(***************************************************************************)
\* most parameters of a query
MaxPairs == 2

\* largest attempt index given to backoff
MaxAttempt == 7

Routes == {"/messages", "/health"}

BaseURLs == {Undefined, Some("https://localhost:3000")}

\* the forms of FetchOptions['query']: a mapping, a sequence of pairs, a
\* URLSearchParams, a string
QueryKinds == {"record", "array", "params", "string"}

QueryPairs == {<<"page", "1">>, <<"limit", "10">>, <<"q", "a b">>}

PairSequences == UNION {[1..n -> QueryPairs] : n \in 0..MaxPairs}

\* a mapping holds a name once
DistinctNames(pairs) ==
    \A i, j \in 1..Len(pairs) : pairs[i][1] = pairs[j][1] => i = j

Queries ==
    {Undefined}
    \cup {Some([pairs |-> pairs, kind |-> kind]) :
             pairs \in {ps \in PairSequences : DistinctNames(ps)}, kind \in QueryKinds}

Statuses == 100..599

\* Math.random() in thousandths
Thousandths == 0..999

\* the values of X-RateLimit-Retry-After (milliseconds)
XRetryAfterTokens ==
    {Absent, Empty, Num(Ms(1500)), Num(Ms(1) \div 2), Num(0), Num(Ms(0 - 20)), Inf,
     Text("soon")}

\* the values of Retry-After (seconds or an HTTP date)
RetryAfterTokens ==
    {Absent, Empty, Num(Ms(2)), Num(Ms(3) \div 2), Num(1), Num(0), Num(Ms(0 - 5)), Inf,
     Date(5000), Date(3000), Text("soon")}

RetryAfterHeaders ==
    {[key \in {"X-RateLimit-Retry-After", "Retry-After"} |->
         IF key = "Retry-After" THEN retryAfter ELSE xRetryAfter] :
       xRetryAfter \in XRetryAfterTokens, retryAfter \in RetryAfterTokens}

Input(fn, args) == [result |-> Undefined, fn |-> fn, args |-> args]

\* the applications of the exported functions, and of the private parsers
\* and of fetch on a response, that the application makes
Inputs ==
    {Input("createURL", [query |-> query, route |-> route, baseURL |-> baseURL]) :
        route \in Routes, query \in Queries, baseURL \in BaseURLs}
    \cup {Input("isRetryableStatus", [status |-> status]) : status \in Statuses}
    \cup {Input("backoff", [attempt |-> attempt, random |-> random]) :
             attempt \in 0..MaxAttempt, random \in Thousandths}
    \cup {Input("parseRateLimitContext", [headers |-> hdrs, now |-> now]) :
             hdrs \in RetryAfterHeaders, now \in Clock}
    \cup {Input("fetch", [status |-> status, attempt |-> attempt]) :
             status \in Statuses, attempt \in {0, DefaultRetryMax}}

\* the client the functions are applied beside: no retry option configured
UtilsClients ==
    [headers : {NoHeaders}, baseURL : {Undefined}, auth : {"old-token"},
     timeout : {Undefined},
     retry : [delay : {Undefined}, max : {Undefined}, onRetry : {FALSE}],
     onRateLimit : {FALSE}]

InitUtils ==
    /\ options \in UtilsClients
    /\ headers = Construct(options)
    /\ calls = [id \in CallIds |-> UnusedCall]
    /\ setAuthResult = "none"
    /\ setAuthLeft = 0
    /\ lastAuth = options.auth
    /\ evaluation \in Inputs

\* the application applies fn and keeps what it returns
Apply(fn, result) ==
    /\ evaluation.fn = fn
    /\ evaluation.result = Undefined
    /\ evaluation' = [evaluation EXCEPT !.result = Some(result)]
    /\ UNCHANGED <<options, headers, calls, setAuthResult, setAuthLeft, lastAuth>>

ApplyCreateURL ==
    Apply("createURL", createURL(evaluation.args.route, evaluation.args.query,
                                 evaluation.args.baseURL))

ApplyIsRetryableStatus ==
    Apply("isRetryableStatus", isRetryableStatus(evaluation.args.status))

ApplyBackoff ==
    Apply("backoff", backoffMs(evaluation.args.attempt, evaluation.args.random))

ApplyParseRateLimitContext ==
    Apply("parseRateLimitContext",
          parseRateLimitContext(Response(RATE_LIMIT_STATUS, "", evaluation.args.headers,
                                         TextBody),
                                Ms(evaluation.args.now)))

\* fetch at the attempt index of the input, answered with the status of the
\* input: the URL requested and where the call stands at the next await
ApplyFetch ==
    LET call == fetch(IdleCall, "/messages",
                      FetchOptions([headers |-> NoHeaders, query |-> NoQuery,
                                    timeout |-> Undefined], "GET", FALSE, Undefined),
                      evaluation.args.attempt)
        request == call.requests[1]
        response == Response(evaluation.args.status, request.url, NoResponseHeaders,
                             TextBody)
    IN  Apply("fetch", [url |-> request.url, pc |-> fetchResume(call, response, 0, 0).pc])

NextUtils ==
    \/ ApplyCreateURL
    \/ ApplyIsRetryableStatus
    \/ ApplyBackoff
    \/ ApplyParseRateLimitContext
    \/ ApplyFetch

SpecUtils == InitUtils /\ [][NextUtils]_vars

(***************************************************************************)
(* Properties                                                              *)
(***************************************************************************)
Started(call) == call.pc \notin {"unused", "idle"}

\* retry.max, 3 when not configured
RetryMax == Nullish(options.retry.max, DefaultRetryMax)

Method(call) == call.options[1].method

Error(call) == call.result[1].error

Rejected(call) == call.pc = "rejected"

\* the response the call has received for its last request
Received(call) == call.response # Undefined

\* some reading of the clock gives this context for this response
ParsedFrom(context, response) ==
    \E now \in Clock : context = parseRateLimitContext(response, Ms(now))

\* C1: the attempt index starts at 0 with the first physical request and
\* grows by 1 with each further physical request, and a call issues at most
\* max + 1 physical requests, max being retry.max or 3.
C1_AttemptsBounded ==
    \A id \in CallIds :
        Started(calls[id]) =>
            /\ calls[id].attempt \in 0..RetryMax
            /\ Len(calls[id].requests) = calls[id].attempt + 1
            /\ Len(calls[id].requests) <= RetryMax + 1

C1_Witness ==
    \E id \in CallIds :
        /\ options.retry.max = Undefined
        /\ Rejected(calls[id])
        /\ calls[id].attempt = DefaultRetryMax
        /\ Len(calls[id].requests) = DefaultRetryMax + 1

\* C2: a call that has received k retryable responses and then an ok
\* response (whose body is a JSON object) has issued k + 1 physical
\* requests, has invoked onRetry (when configured) k times with the attempt
\* indices 0..k-1 in that order, each with the call's route and method, and
\* is not rejected: it resolves with the data of the ok response.
C2_RetryThenSuccess ==
    \A id \in CallIds :
        (/\ Received(calls[id])
         /\ calls[id].response[1].ok
         /\ calls[id].response[1].body.kind = "object") =>
            LET k == calls[id].retryable
            IN  /\ k <= RetryMax
                /\ Len(calls[id].requests) = k + 1
                /\ calls[id].pc \in {"json", "resolved"}
                /\ calls[id].pc = "resolved" =>
                      calls[id].result[1].value = calls[id].response[1].body.data
                /\ calls[id].onRetryLog =
                      IF options.retry.onRetry
                      THEN [i \in 1..k |-> [route |-> calls[id].route, attempt |-> i - 1,
                                            method |-> Method(calls[id])]]
                      ELSE << >>

C2_Witness ==
    \E id \in CallIds :
        /\ calls[id].pc = "resolved"
        /\ options.retry.onRetry
        /\ calls[id].retryable = 2
        /\ Len(calls[id].onRetryLog) = 2
        /\ calls[id].result[1].value = Some("msg_1")

\* C3: a retryable response received at an attempt index >= retry.max
\* rejects the call at once, with no further physical request: with a
\* RateLimitError carrying the context parsed from that response, its URL and
\* the method if the status is 429, otherwise with an HTTPError carrying the
\* status and URL of that response and the method; with retry.max = 0 the
\* call has issued exactly 1 physical request.
C3_RetryExhausted ==
    \A id \in CallIds :
        (/\ Received(calls[id])
         /\ isRetryableStatus(calls[id].response[1].status)
         /\ calls[id].attempt >= RetryMax) =>
            LET response == calls[id].response[1]
                error == Error(calls[id])
            IN  /\ Rejected(calls[id])
                /\ Len(calls[id].requests) = calls[id].attempt + 1
                /\ options.retry.max = Some(0) => Len(calls[id].requests) = 1
                /\ IF response.status = 429
                   THEN /\ error.name = "RateLimitError"
                        /\ ParsedFrom([limit |-> error.limit, isGlobal |-> error.global,
                                       retryAfter |-> error.retryAfter], response)
                   ELSE /\ error.name = "HTTPError"
                        /\ error.status = response.status
                        /\ error.url = response.url
                        /\ error.method = Method(calls[id])

C3_Witness ==
    \E id \in CallIds :
        /\ options.retry.max = Some(0)
        /\ Rejected(calls[id])
        /\ Len(calls[id].requests) = 1
        /\ Error(calls[id]).name = "RateLimitError"
        /\ Error(calls[id]).retryAfter = Ms(1500)
        /\ Error(calls[id]).limit = Finite(Ms(100))

\* C4: with onRateLimit configured, the callback has been invoked once for
\* each 429 response the call received, except the 429 response that
\* exhausts the retries, and while it runs its argument is the context
\* parsed from the response just received, which is a 429; it is never
\* invoked when it is not configured.
C4_OnRateLimit ==
    \A id \in CallIds :
        LET call == calls[id]
            exhausting == IF /\ Received(call)
                             /\ call.response[1].status = RATE_LIMIT_STATUS
                             /\ call.attempt >= RetryMax
                          THEN 1 ELSE 0
        IN  /\ call.onRateLimitCalls =
                  IF options.onRateLimit THEN call.rateLimited - exhausting ELSE 0
            /\ call.pc = "onRateLimit" =>
                  /\ call.response[1].status = RATE_LIMIT_STATUS
                  /\ call.onRateLimitArg # Undefined
                  /\ ParsedFrom(call.onRateLimitArg[1], call.response[1])

C4_Witness ==
    \E id \in CallIds :
        /\ options.onRateLimit
        /\ Rejected(calls[id])
        /\ calls[id].retryable = 2
        /\ calls[id].rateLimited = 2
        /\ calls[id].onRateLimitCalls = 1
        /\ calls[id].onRateLimitArg[1].limit = Finite(Ms(25))
        /\ calls[id].onRateLimitArg[1].isGlobal

\* C5: a call that has received a response with a non-retryable status and
\* a business error payload only reads the body and then is rejected with a
\* RewriteError carrying the message, the code and the detail of that
\* payload; it has issued one physical request per attempt and, for that
\* response, has invoked no callback and waited no delay.
C5_BusinessError ==
    \A id \in CallIds :
        LET call == calls[id]
        IN  (/\ Received(call)
             /\ ~call.response[1].ok
             /\ ~isRetryableStatus(call.response[1].status)
             /\ call.response[1].body.kind = "object"
             /\ call.response[1].body.error # Undefined) =>
                /\ call.pc \in {"errorJson", "rejected"}
                /\ Rejected(call) =>
                      /\ Error(call).name = "RewriteError"
                      /\ Error(call).code = call.response[1].body.code
                      /\ Error(call).detailed = call.response[1].body.error[1].detailed
                      /\ Error(call).message = call.response[1].body.message
                /\ Len(call.requests) = call.attempt + 1
                /\ Len(call.onRetryLog) = IF options.retry.onRetry THEN call.attempt ELSE 0
                /\ call.onRateLimitCalls = IF options.onRateLimit THEN call.rateLimited ELSE 0
                /\ call.sleeps = call.attempt
                /\ call.delay = Undefined

C5_Witness ==
    \E id \in CallIds :
        /\ Rejected(calls[id])
        /\ Received(calls[id])
        /\ calls[id].attempt = 1
        /\ calls[id].response[1].status = 400
        /\ Error(calls[id]).name = "RewriteError"
        /\ Error(calls[id]).code = Some("INVALID_PAYLOAD")
        /\ Error(calls[id]).detailed = Some("field:to")

\* C6: every call that is rejected on a non-retryable response is rejected
\* with a protocol or a business error (HTTPError, RateLimitError,
\* RewriteError), whatever the body of the response is.
C6_TaxonomyOnNonRetryable ==
    \A id \in CallIds :
        (/\ Rejected(calls[id])
         /\ Received(calls[id])
         /\ ~calls[id].response[1].ok
         /\ ~isRetryableStatus(calls[id].response[1].status)) =>
            Error(calls[id]).name \in {"HTTPError", "RateLimitError", "RewriteError"}

\* C7: while a call waits before a retry, the delay is the retryAfter of the
\* response just received when that response is a 429 with retryAfter > 0,
\* whether or not retry.delay is configured; otherwise it is
\* retry.delay(attempt), or backoff(attempt) when retry.delay is not
\* configured, for the current attempt index.
C7_RetryDelay ==
    \A id \in CallIds :
        calls[id].pc = "sleep" =>
            LET call == calls[id]
                response == call.response[1]
                context == call.rateLimitContext
            IN  /\ call.delay # Undefined
                /\ (context # Undefined) = (response.status = RATE_LIMIT_STATUS)
                /\ context # Undefined => ParsedFrom(context[1], response)
                /\ IF context # Undefined /\ context[1].retryAfter > 0
                   THEN call.delay[1] = context[1].retryAfter
                   ELSE IF options.retry.delay # Undefined
                   THEN call.delay[1] = ApplyDelay(options.retry.delay[1], call.attempt)
                   ELSE call.delay[1] \in {backoff(call.attempt, random) : random \in RandomDraws}

C7_Witness ==
    \E id \in CallIds :
        /\ calls[id].pc = "sleep"
        /\ options.retry.delay # Undefined
        /\ calls[id].attempt = 1
        /\ calls[id].response[1].status = RATE_LIMIT_STATUS
        /\ calls[id].delay = Some(Ms(1500))

\* C8: once onRateLimit or onRetry has thrown, the call is rejected with that
\* failure, and it has waited no delay and issued no physical request since
\* the response that led to the callback.
C8_CallbackFailure ==
    \A id \in CallIds :
        calls[id].thrown # Undefined =>
            /\ Rejected(calls[id])
            /\ Error(calls[id]) = CallbackError(calls[id].thrown[1])
            /\ Received(calls[id])
            /\ Len(calls[id].requests) = calls[id].attempt + 1
            /\ calls[id].sleeps = calls[id].attempt
            /\ calls[id].delay = Undefined

C8_Witness ==
    \E id \in CallIds :
        /\ calls[id].thrown = Some("onRetry")
        /\ calls[id].attempt = 1
        /\ calls[id].onRateLimitCalls = 2
        /\ Rejected(calls[id])

\* the Authorization header a request of the call carries when the client
\* holds the credential auth
Authorization(call, auth) ==
    IF "Authorization" \in DOMAIN call.options[1].headers
    THEN call.options[1].headers["Authorization"] ELSE Bearer(auth)

\* C9: setAuth returns the client itself and makes its credential the
\* current one; every physical request of a call started after the last
\* setAuth carries Authorization: Bearer <that credential>, unless the call
\* overrides the header.
C9_SetAuth ==
    /\ setAuthResult \in {"none", "this"}
    /\ options.auth = lastAuth
    /\ \A id \in CallIds :
          (Started(calls[id]) /\ ~calls[id].authChanged) =>
              \A i \in 1..Len(calls[id].requests) :
                  calls[id].requests[i].headers["Authorization"]
                      = Authorization(calls[id], lastAuth)

C9_Witness ==
    \E id \in CallIds :
        /\ setAuthResult = "this"
        /\ lastAuth = "new-token"
        /\ ~calls[id].authChanged
        /\ Len(calls[id].requests) = 2
        /\ calls[id].options[1].headers = NoHeaders
        /\ calls[id].requests[2].headers["Authorization"] = "Bearer new-token"

\* C10 as claimed: every physical request of a call carries the Authorization
\* header of the first physical request of the call.
C10_HeadersCapturedAtDispatch ==
    \A id \in CallIds :
        \A i \in 1..Len(calls[id].requests) :
            calls[id].requests[i].headers["Authorization"]
                = calls[id].requests[1].headers["Authorization"]

\* C10 as amended: a physical request carries the headers the client holds
\* when that request is issued (under the per-call headers), so a retry
\* issued after a setAuth carries the new credential; the requests already
\* issued are not changed.
C10_HeadersReadAtEachRequest ==
    [][\A id \in CallIds :
          /\ Len(calls'[id].requests) >= Len(calls[id].requests)
          /\ SubSeq(calls'[id].requests, 1, Len(calls[id].requests)) = calls[id].requests
          /\ Len(calls'[id].requests) > Len(calls[id].requests) =>
                /\ Len(calls'[id].requests) = Len(calls[id].requests) + 1
                /\ calls'[id].requests[Len(calls'[id].requests)].headers
                      = Spread(headers, calls'[id].options[1].headers)]_vars

C10_Witness ==
    \E id \in CallIds :
        /\ Len(calls[id].requests) = 2
        /\ calls[id].requests[1].headers["Authorization"] = "Bearer old-token"
        /\ calls[id].requests[2].headers["Authorization"] = "Bearer new-token"

\* the delay the call waits for is resolved from its own attempt index and
\* from the rate-limit context of its own response
OwnDelay(call) ==
    IF call.rateLimitContext # Undefined /\ call.rateLimitContext[1].retryAfter > 0
    THEN {call.rateLimitContext[1].retryAfter}
    ELSE IF options.retry.delay # Undefined
    THEN {ApplyDelay(options.retry.delay[1], call.attempt)}
    ELSE {backoff(call.attempt, random) : random \in RandomDraws}

\* the state of a call as a function of the responses to its own requests
Own(call) ==
    Started(call) =>
        /\ call.attempt = call.retryable
                - (IF Received(call) /\ isRetryableStatus(call.response[1].status)
                   THEN 1 ELSE 0)
        /\ call.sleeps = call.attempt
        /\ Len(call.requests) = call.attempt + 1
        /\ call.rateLimitContext # Undefined =>
              /\ Received(call)
              /\ call.response[1].status = RATE_LIMIT_STATUS
              /\ ParsedFrom(call.rateLimitContext[1], call.response[1])
        /\ call.delay # Undefined =>
              /\ Received(call)
              /\ (call.rateLimitContext # Undefined)
                    = (call.response[1].status = RATE_LIMIT_STATUS)
              /\ call.delay[1] \in OwnDelay(call)
        /\ call.pc = "resolved" =>
              /\ call.response[1].ok
              /\ call.result[1].value = call.response[1].body.data
        /\ (Rejected(call) /\ Received(call)
                /\ isRetryableStatus(call.response[1].status)) =>
              /\ Error(call).name \in {"HTTPError", "RateLimitError"} =>
                    /\ call.attempt = RetryMax
                    /\ Error(call).url = call.response[1].url
                    /\ Error(call).status = call.response[1].status
              /\ Error(call).name = "RateLimitError" =>
                    Error(call).retryAfter
                        \in {parseRateLimitContext(call.response[1], Ms(now)).retryAfter :
                                now \in Clock}

\* C11: with two calls in flight on one client, under any interleaving, a
\* step of one call leaves the other call as it is (its attempt index, its
\* requests, its rate-limit context, its delay, its outcome), and after every
\* step the attempt index, the number of physical requests, the rate-limit
\* context, the delay and the outcome of each call are those determined by
\* the responses to its own requests.
C11_CallsIndependent ==
    [][\A id \in CallIds :
          /\ Own(calls'[id])
          /\ calls'[id] # calls[id] =>
                \A other \in CallIds \ {id} : calls'[other] = calls[other]]_vars

C11_Witness ==
    /\ calls["c1"].pc = "fetching"
    /\ calls["c1"].attempt = 1
    /\ calls["c1"].rateLimited = 1
    /\ calls["c2"].pc = "sleep"
    /\ calls["c2"].attempt = 0
    /\ calls["c2"].rateLimited = 0
    /\ calls["c2"].delay = Some(backoff(0, 500))

\* the value a physical request of the call carries for a header, given the
\* value the client sends when the call does not override it
Carried(call, key, value) ==
    IF key \in DOMAIN call.options[1].headers THEN call.options[1].headers[key] ELSE value

\* a physical request is issued in this step by the call
Issued(id) == Len(calls'[id].requests) = Len(calls[id].requests) + 1

\* the physical request issued in this step by the call
IssuedRequest(id) == calls'[id].requests[Len(calls'[id].requests)]

\* C12 as claimed: every physical request carries Content-Type:
\* application/json and Authorization: Bearer <current credential>, except
\* for the keys the per-call headers override.
C12_HeadersAlwaysSet ==
    [][\A id \in CallIds :
          Issued(id) =>
              /\ IssuedRequest(id).headers["Content-Type"]
                    = Carried(calls'[id], "Content-Type", "application/json")
              /\ IssuedRequest(id).headers["Authorization"]
                    = Carried(calls'[id], "Authorization", Bearer(options.auth))]_vars

\* C12 as amended: every physical request carries Authorization: Bearer
\* <current credential> unless the per-call headers override it, whatever the
\* default headers of the client are; it carries Content-Type:
\* application/json unless the per-call headers or the default headers of
\* the client give another Content-Type; the other default headers are
\* carried too.
C12_HeadersOfRequest ==
    [][\A id \in CallIds :
          Issued(id) =>
              /\ IssuedRequest(id).headers["Content-Type"]
                    = Carried(calls'[id], "Content-Type",
                              IF "Content-Type" \in DOMAIN options.headers
                              THEN options.headers["Content-Type"]
                              ELSE "application/json")
              /\ IssuedRequest(id).headers["Authorization"]
                    = Carried(calls'[id], "Authorization", Bearer(options.auth))
              /\ \A key \in DOMAIN options.headers \ {"Content-Type", "Authorization"} :
                    IssuedRequest(id).headers[key]
                        = Carried(calls'[id], key, options.headers[key])]_vars

C12_Witness ==
    \E id \in CallIds :
        /\ options.headers = DefaultHeaders
        /\ options.auth = "new-token"
        /\ Len(calls[id].requests) = 2
        /\ calls[id].options[1].headers = NoHeaders
        /\ calls[id].requests[2].headers["Authorization"] = "Bearer new-token"
        /\ calls[id].requests[2].headers["Content-Type"] = "text/plain"
        /\ calls[id].requests[2].headers["X-App"] = "demo"

\* the application has applied fn
Applied(fn) == evaluation.fn = fn /\ evaluation.result # Undefined

\* C13 as claimed: createURL(route, query, base) is base + "/v1" + route,
\* followed by "?" and the encoded query (name=value joined by "&" in
\* insertion order) if and only if the query has a parameter; a missing
\* query, an empty mapping, an empty sequence of pairs and an empty string
\* give a URL with no "?".
C13_CreateURL ==
    Applied("createURL") =>
        LET args == evaluation.args
            pairs == IF args.query = Undefined THEN << >> ELSE args.query[1].pairs
        IN  evaluation.result[1] =
                Nullish(args.baseURL, DefaultBaseURL) \o "/v1" \o args.route
                \o (IF pairs = << >> THEN "" ELSE "?" \o EncodeQuery(pairs))

\* C14 as claimed: with no base URL, createURL(route) and the URL a client
\* without baseURL requests are "https://api.rewritetoday.com" + "/v1" + route.
C14_DefaultBaseURL ==
    /\ (Applied("createURL") /\ evaluation.args.baseURL = Undefined
            /\ evaluation.args.query = Undefined) =>
          evaluation.result[1] = "https://api.rewritetoday.com" \o "/v1" \o evaluation.args.route
    /\ (Applied("fetch") /\ options.baseURL = Undefined) =>
          evaluation.result[1].url = "https://api.rewritetoday.com" \o "/v1" \o "/messages"

\* C15: isRetryableStatus(s) is true exactly for s in {408, 425, 429, 500,
\* 502, 503, 504}; fetch goes on to a retry after a failed response if and
\* only if the status is one of these (and the retries are not exhausted),
\* and reads the error body of the response if and only if it is not.
C15_RetryableStatus ==
    LET retryable == {408, 425, 429, 500, 502, 503, 504}
    IN  /\ Applied("isRetryableStatus") =>
              evaluation.result[1] = (evaluation.args.status \in retryable)
        /\ Applied("fetch") =>
              LET status == evaluation.args.status
                  pc == evaluation.result[1].pc
                  failed == status \notin 200..299
              IN  /\ (pc \in {"onRateLimit", "onRetry", "sleep"})
                        = (failed /\ status \in retryable /\ evaluation.args.attempt < RetryMax)
                  /\ (pc = "rejected")
                        = (failed /\ status \in retryable /\ evaluation.args.attempt >= RetryMax)
                  /\ (pc = "errorJson") = (failed /\ status \notin retryable)

C15_Witness ==
    /\ Applied("fetch")
    /\ evaluation.args.status = 425
    /\ evaluation.args.attempt = 0
    /\ evaluation.result[1].pc = "sleep"

\* C16: for every attempt index >= 0 and every draw of Math.random() in
\* [0, 1), backoff(attempt) is an integer d with exp <= d <= floor(exp * 1.3),
\* where exp = min(10000, 300 * 2^attempt); d is at most 13000 ms.
C16_BackoffBounded ==
    Applied("backoff") =>
        LET exp == Min(10000, 300 * (2 ^ evaluation.args.attempt))
            d == evaluation.result[1]
        IN  /\ d \in Nat
            /\ exp <= d
            /\ d <= (exp * 13) \div 10
            /\ d <= 13000

C16_Witness ==
    /\ Applied("backoff")
    /\ evaluation.args.attempt = 6
    /\ evaluation.args.random = 999
    /\ evaluation.result[1] = 12997

\* C17: the retryAfter of a 429 response is the value of
\* X-RateLimit-Retry-After when that header is present, finite and > 0;
\* otherwise it is Retry-After read as seconds (ceil(seconds * 1000)) or as
\* an HTTP date (date - now), not below 0; it is 0 when neither header can be
\* read; it is never negative.
C17_RetryAfter ==
    Applied("parseRateLimitContext") =>
        LET x == evaluation.args.headers["X-RateLimit-Retry-After"]
            r == evaluation.args.headers["Retry-After"]
            now == Ms(evaluation.args.now)
            retryAfter == evaluation.result[1].retryAfter
        IN  /\ retryAfter >= 0
            /\ retryAfter =
                  IF x.k = "num" /\ x.n > 0 THEN x.n
                  ELSE CASE r.k = "num" ->
                              IF r.n <= 0 THEN 0
                              ELSE IF (r.n * 1000) % Scale = 0 THEN r.n * 1000
                              ELSE (((r.n * 1000) \div Scale) + 1) * Scale
                         [] r.k = "date" -> IF Ms(r.n) > now THEN Ms(r.n) - now ELSE 0
                         [] OTHER -> 0

C17_Witness ==
    /\ Applied("parseRateLimitContext")
    /\ evaluation.args.headers["X-RateLimit-Retry-After"] = Num(Ms(0 - 20))
    /\ evaluation.args.headers["Retry-After"] = Date(5000)
    /\ evaluation.args.now = 4000
    /\ evaluation.result[1].retryAfter = Ms(1000)

\* the client is constructed with no retry option
NoRetryOption ==
    /\ options.retry.max = Undefined
    /\ options.retry.delay = Undefined
    /\ ~options.retry.onRetry

\* C18 as claimed: with no retry option configured, a call that keeps
\* receiving retryable responses issues 3 physical requests in total and
\* then is rejected.
C18_DefaultThreeTries ==
    \A id \in CallIds :
        (NoRetryOption /\ Started(calls[id])) =>
            /\ Len(calls[id].requests) <= 3
            /\ (/\ Rejected(calls[id])
                /\ calls[id].thrown = Undefined
                /\ Received(calls[id])
                /\ isRetryableStatus(calls[id].response[1].status)) =>
                  Len(calls[id].requests) = 3

\* the call enters the position pc in this step
Enters(id, pc) == calls'[id].pc = pc /\ calls[id].pc # pc

\* onRateLimit is awaited for the response the call has received
AwaitsOnRateLimit(call) ==
    options.onRateLimit /\ call.response[1].status = RATE_LIMIT_STATUS

\* C19: within one retry step the order is fixed: the retryable response is
\* received; then onRateLimit runs (if the response is a 429 and the callback
\* is configured); then, it having returned, onRetry runs (if configured);
\* then, it having returned, the delay starts; and only when the delay has
\* elapsed is the next physical request issued, with the attempt index one
\* higher.  A request is issued only when every earlier request of the call
\* has been answered: no call has two requests outstanding.
C19_RetryStepOrder ==
    [][\A id \in CallIds :
          LET old == calls[id]
              new == calls'[id]
          IN  /\ Enters(id, "onRateLimit") =>
                    /\ old.pc = "fetching"
                    /\ isRetryableStatus(new.response[1].status)
                    /\ AwaitsOnRateLimit(new)
              /\ Enters(id, "onRetry") =>
                    /\ options.retry.onRetry
                    /\ isRetryableStatus(new.response[1].status)
                    /\ old.pc = IF AwaitsOnRateLimit(new) THEN "onRateLimit" ELSE "fetching"
              /\ Enters(id, "sleep") =>
                    /\ isRetryableStatus(new.response[1].status)
                    /\ new.delay # Undefined
                    /\ old.pc = IF options.retry.onRetry THEN "onRetry"
                                ELSE IF AwaitsOnRateLimit(new) THEN "onRateLimit"
                                ELSE "fetching"
              /\ Issued(id) =>
                    /\ old.pc \in {"idle", "sleep"}
                    /\ new.pc = "fetching"
                    /\ new.attempt = IF old.pc = "idle" THEN 0 ELSE old.attempt + 1
                    /\ Len(old.requests) = old.retryable
              /\ new.pc = "fetching" => Len(new.requests) = new.retryable + 1]_vars

C19_Witness ==
    \E id \in CallIds :
        /\ calls[id].pc = "fetching"
        /\ calls[id].attempt = 1
        /\ options.onRateLimit /\ options.retry.onRetry
        /\ calls[id].rateLimited = 1
        /\ calls[id].onRateLimitCalls = 1
        /\ Len(calls[id].onRetryLog) = 1
        /\ calls[id].sleeps = 1

\* the parts of a physical request that come from the request descriptor of
\* the call: method, URL (route and query), body, timeout, and the headers
\* the call overrides
FromDescriptor(call, request) ==
    LET opts == call.options[1]
    IN  /\ request.method = opts.method
        /\ request.url = createURL(call.route, opts.query, options.baseURL)
        /\ request.body = (IF opts.hasData THEN Stringify(opts.data) ELSE Undefined)
        /\ request.timeout
              = Nullish(opts.timeout, Nullish(options.timeout, FIVE_SECONDS_IN_MS))
        /\ \A key \in DOMAIN opts.headers : request.headers[key] = opts.headers[key]

\* C20: the request descriptor of a call (method, route, query, body,
\* per-call headers and timeout) is the same from its first physical request
\* on: a retry keeps the route and the options of the call, advances the
\* attempt index by one, and issues a request with the method, the URL, the
\* body, the timeout and the per-call headers of the request before.
C20_SameDescriptor ==
    [][\A id \in CallIds :
          LET old == calls[id]
              new == calls'[id]
          IN  /\ Started(old) => (new.route = old.route /\ new.options = old.options)
              /\ Issued(id) => FromDescriptor(new, IssuedRequest(id))
              /\ (Issued(id) /\ Started(old)) =>
                    LET before == old.requests[Len(old.requests)]
                        retry == IssuedRequest(id)
                    IN  /\ new.attempt = old.attempt + 1
                        /\ retry.method = before.method
                        /\ retry.url = before.url
                        /\ retry.body = before.body
                        /\ retry.timeout = before.timeout
                        /\ DOMAIN retry.headers = DOMAIN before.headers
                        /\ \A key \in DOMAIN new.options[1].headers :
                              retry.headers[key] = before.headers[key]]_vars

C20_Witness ==
    \E id \in CallIds :
        /\ Len(calls[id].requests) = 2
        /\ calls[id].requests[2].method = "POST"
        /\ calls[id].requests[2].body = Some("\"oi\"")
        /\ calls[id].requests[2].url = calls[id].requests[1].url
        /\ calls[id].requests[2].headers # calls[id].requests[1].headers

\* in this step the outstanding request of the call ends with no response:
\* it timed out, or the transport rejected
Fails(id) ==
    /\ calls[id].pc = "fetching"
    /\ calls'[id].pc # "fetching"
    /\ ~Received(calls'[id])

\* C21: when the outstanding request of a call times out or the transport
\* rejects, whatever the attempt index and retry.max, the call is rejected in
\* that step with that failure (not an HTTPError, a RateLimitError or a
\* RewriteError), having issued no request, waited no delay and invoked
\* neither onRetry nor onRateLimit; and a rejected call stays as it is: no
\* request, delay or callback follows.
C21_TransportFailure ==
    [][\A id \in CallIds :
          LET old == calls[id]
              new == calls'[id]
          IN  /\ Fails(id) =>
                    /\ Rejected(new)
                    /\ Error(new) \in {RuntimeError(failure) : failure \in TransportFailures}
                    /\ new = Reject(old, Error(new))
              /\ Rejected(old) =>
                    new = [old EXCEPT !.authChanged = new.authChanged]]_vars

C21_Witness ==
    \E id \in CallIds :
        /\ Rejected(calls[id])
        /\ ~Received(calls[id])
        /\ Error(calls[id]) = RuntimeError("TimeoutError")
        /\ options.retry.max = Undefined
        /\ options.retry.onRetry
        /\ calls[id].attempt = 1
        /\ Len(calls[id].requests) = 2
        /\ Len(calls[id].onRetryLog) = 1
        /\ calls[id].sleeps = 1

\* the promise of the call is settled
Settled(call) == call.pc \in {"resolved", "rejected"}

\* C22: provided every physical request completes or times out, every
\* callback returns, every delay elapses and retry.max is a finite number,
\* every call that is started is eventually resolved with a payload or
\* rejected with an error: no call retries forever.
C22_Terminates ==
    \A id \in CallIds : Started(calls[id]) ~> Settled(calls[id])

C22_Witness ==
    \E id \in CallIds :
        /\ options.retry.max = Undefined
        /\ calls[id].pc = "resolved"
        /\ calls[id].result # Undefined
        /\ calls[id].attempt = DefaultRetryMax
        /\ calls[id].sleeps = DefaultRetryMax

====
